---- MODULE Spec2Model ----
(***************************************************************************)
(* Conversation state machine of recto-backend: src/agent/chatbot.py       *)
(* (chat_with_agent, get_conversation_history, get_all_user_sessions, the  *)
(* LangGraph graph START -> chat_node -> END compiled with a PostgresSaver *)
(* checkpointer) as it is served by src/main.py.                           *)
(*                                                                         *)
(* Python strings are sequences of one-character strings, so that the      *)
(* f-string composition, str.split, SQL LIKE and slicing are computed.     *)
(***************************************************************************)
EXTENDS Integers, Sequences, FiniteSets, TLC

\* ------------------------------------------------------------------ bounds
\* Total number of chat_with_agent calls that are started in a behaviour.
MaxCalls == 2
\* Number of server processes that share the database (process 1 is the
\* one started by main.py; the others exist only under SpecWorkers).
NumWorkers == 2

\* ------------------------------------------------------- program constants
\* history[0]['content'][:50]
PreviewLen == 50
\* max_retries =2
max_retries == 2
Workers == 1 .. NumWorkers
MainProc == 1

\* ----------------------------------------------------------------- strings
RECURSIVE Rep(_, _)
Rep(c, n) == IF n = 0 THEN <<>> ELSE <<c>> \o Rep(c, n - 1)

Take(s, n) == SubSeq(s, 1, IF Len(s) < n THEN Len(s) ELSE n)

StartsWith(s, pre) == Len(s) >= Len(pre) /\ SubSeq(s, 1, Len(pre)) = pre

\* Python `sub in s` for two strings.
Contains(s, sub) ==
    \E i \in 1 .. (Len(s) - Len(sub) + 1) : SubSeq(s, i, i + Len(sub) - 1) = sub

\* Python s.split(sep): the pieces between non-overlapping occurrences of
\* sep, scanning from the left.
RECURSIVE SplitFrom(_, _, _)
SplitFrom(s, sep, cur) ==
    IF s = <<>> THEN <<cur>>
    ELSE IF StartsWith(s, sep)
         THEN <<cur>> \o SplitFrom(SubSeq(s, Len(sep) + 1, Len(s)), sep, <<>>)
         ELSE SplitFrom(Tail(s), sep, Append(cur, Head(s)))

split(s, sep) == SplitFrom(s, sep, <<>>)

\* SQL `s LIKE pattern`: % matches any run of characters, _ any one.
RECURSIVE Like(_, _)
Like(s, pattern) ==
    IF pattern = <<>> THEN s = <<>>
    ELSE IF Head(pattern) = "%"
         THEN Like(s, Tail(pattern)) \/ (s # <<>> /\ Like(Tail(s), pattern))
         ELSE /\ s # <<>>
              /\ (Head(pattern) = "_" \/ Head(pattern) = Head(s))
              /\ Like(Tail(s), Tail(pattern))

\* ------------------------------------------------------------------ inputs
\* ChatRequest.user_id, .session_id and .message are unconstrained str.
\* "u" and "u:v" are two users; "u: s" is a user id holding the separator.
\* A session id can be the empty str.
UserIds == { <<"u">>, <<"u", ":", "v">>, <<"u", ":", " ", "s">> }
SessionIds == { <<>>, <<"s">>, <<"s", ":", " ", "s">> }
\* The (user_id, session_id) pairs that requests carry.
Requests ==
    { << <<"u">>, <<>> >>,
      << <<"u">>, <<"s", ":", " ", "s">> >>,
      << <<"u", ":", " ", "s">>, <<"s">> >>,
      << <<"u", ":", "v">>, <<"s">> >> }
\* What the Authorization header of a request can be: absent, a bearer token
\* that supabase.auth.get_user rejects, or one that it verifies.
Credentials == { "none", "invalid", "valid" }
\* The message text of a request: one longer than the preview.
Messages == { Rep("x", PreviewLen + 1) }

\* f'{user_id}: {session_id}'
unique_id(user_id, session_id) == user_id \o <<":", " ">> \o session_id

\* ---------------------------------------------------------------- messages
\* Message.content is a str or a list of parts (langchain_core.messages).
StrContent(text) == [kind |-> "str", text |-> text, parts |-> <<>>]
ListContent(parts) == [kind |-> "list", text |-> <<>>, parts |-> parts]

\* A part of a list content: a dict with a 'text' key, a dict without one
\* (an image, a tool call), or a bare str.
TextPart(text) == [ptype |-> "dict", has_text |-> TRUE, text |-> text]
OtherPart == [ptype |-> "dict", has_text |-> FALSE, text |-> <<>>]
StrPart(text) == [ptype |-> "str", has_text |-> FALSE, text |-> text]

HumanMessage(content) == [type |-> "human", id |-> 0, content |-> StrContent(content)]
AIMessage(content) == [type |-> "ai", id |-> 0, content |-> content]
SystemMessage(content) == [type |-> "system", id |-> 0, content |-> StrContent(content)]

sys_prompt == SystemMessage(<<"S", "Y", "S">>)

\* What llm.invoke can return as the content of its one AIMessage.
Replies ==
    { StrContent(<<"o", "k">>),
      ListContent(<<TextPart(<<"a">>), OtherPart, StrPart(<<"z">>), TextPart(<<"b">>)>>),
      ListContent(<<StrPart(<<"t", "e", "x", "t">>)>>) }

\* `'text' in p`: key membership for a dict, substring test for a str.
TextIn(p) == IF p.ptype = "dict" THEN p.has_text ELSE Contains(p.text, <<"t", "e", "x", "t">>)

\* p['text'] raises TypeError when p is a str.
FlattenRaises(content) ==
    /\ content.kind = "list"
    /\ \E i \in 1 .. Len(content.parts) :
          TextIn(content.parts[i]) /\ content.parts[i].ptype = "str"

RECURSIVE JoinText(_)
JoinText(parts) ==
    IF parts = <<>> THEN <<>>
    ELSE (IF TextIn(Head(parts)) THEN Head(parts).text ELSE <<>>) \o JoinText(Tail(parts))

\* ''.join(p['text'] for p in content if 'text' in p) for a list,
\* str(content) otherwise.
FlattenText(content) ==
    IF content.kind = "list" THEN JoinText(content.parts) ELSE content.text

\* langgraph add_messages: messages without an id get a fresh one; a message
\* whose id is already in the list replaces that entry, any other is appended.
RECURSIVE MergeById(_, _)
MergeById(left, right) ==
    IF right = <<>> THEN left
    ELSE LET m == Head(right)
             same == { i \in 1 .. Len(left) : left[i].id = m.id }
         IN  MergeById(IF same # {}
                       THEN [left EXCEPT ![CHOOSE i \in same : TRUE] = m]
                       ELSE Append(left, m),
                       Tail(right))

\* uuid4(): an id that no message of the lists at hand carries.
uuid4(messages) ==
    LET ids == { messages[i].id : i \in 1 .. Len(messages) }
    IN  IF ids = {} THEN 1 ELSE 1 + CHOOSE n \in ids : \A k \in ids : k <= n

\* A reducer that drops a message whose type and content are already listed.
add_messages_by_content(left, right) ==
    MergeById(left,
              SelectSeq([i \in 1 .. Len(right) |->
                            IF right[i].id = 0
                            THEN [right[i] EXCEPT !.id = uuid4(left \o right) + i - 1]
                            ELSE right[i]],
                        LAMBDA m : \A k \in 1 .. Len(left) :
                                      ~(left[k].type = m.type /\ left[k].content = m.content)))

add_messages(left, right) ==
    MergeById(left, [i \in 1 .. Len(right) |->
                        IF right[i].id = 0
                        THEN [right[i] EXCEPT !.id = uuid4(left \o right) + i - 1]
                        ELSE right[i]])

\* f'Error : {str(e)}'
ErrorText(e) == <<"E", "r", "r", "o", "r", " ", ":", " ">> \o e

BackendError == <<"q", "u", "o", "t", "a">>
StorageError == <<"d", "b">>
TypeError == <<"s", "t", "r">>

\* ------------------------------------------------------------------- state
VARIABLES
    checkpoints,   \* thread_id -> messages channel of the newest checkpoint row
    chat,          \* per process: the chat_with_agent call it is serving
    lister,        \* the get_all_user_sessions call of the thread pool
    history,       \* the get_conversation_history call of the /history route
    ncalls,        \* chat_with_agent calls started so far
    turns          \* history variable: per thread, the calls that ended

vars == <<checkpoints, chat, lister, history, ncalls, turns>>

ThreadOf(c) == unique_id(c.user_id, c.session_id)

\* graph.get_state(config).values.get('messages', [])
get_state(thread_id) ==
    IF thread_id \in DOMAIN checkpoints THEN checkpoints[thread_id] ELSE <<>>

\* checkpointer.put: the new row becomes the newest checkpoint of the thread.
put(thread_id, messages) ==
    [t \in DOMAIN checkpoints \cup {thread_id} |->
        IF t = thread_id THEN messages ELSE checkpoints[t]]

\* route: the route serving the request; user: what Depends(get_current_user)
\* handed the handler; attempts: the backend attempts of the llm.invoke in
\* progress; status: the HTTP status of the response.
IdleChat ==
    [pc |-> "idle", route |-> "", user |-> <<>>,
     user_id |-> <<>>, session_id |-> <<>>, message |-> <<>>,
     before |-> <<>>, channels |-> <<>>, request |-> <<>>, response |-> <<>>,
     attempts |-> 0, outcome |-> "none", ret |-> <<>>, status |-> 0]

IdleLister ==
    [pc |-> "idle", user_id |-> <<>>, rows |-> {}, scanned |-> <<>>,
     sessions |-> <<>>, outcome |-> "none"]

IdleHistory ==
    [pc |-> "idle", user_id |-> <<>>, session_id |-> <<>>, conversation |-> <<>>,
     outcome |-> "none"]

Init ==
    /\ checkpoints = << >>
    /\ chat = [p \in Workers |-> IdleChat]
    /\ lister = IdleLister
    /\ history = IdleHistory
    /\ ncalls = 0
    /\ turns = << >>

\* History variable: a call that returned its reply adds (message, returned
\* text) to the log of its thread; any other ending marks the thread.
TurnsOf(thread_id) ==
    IF thread_id \in DOMAIN turns THEN turns[thread_id] ELSE [clean |-> TRUE, log |-> <<>>]

Logged(c) ==
    IF c.pc # "return" THEN turns
    ELSE [t \in DOMAIN turns \cup {ThreadOf(c)} |->
            IF t # ThreadOf(c) THEN turns[t]
            ELSE IF c.outcome = "ok"
                 THEN [TurnsOf(t) EXCEPT !.log = Append(@, [message |-> c.message,
                                                            text |-> c.ret])]
                 ELSE [TurnsOf(t) EXCEPT !.clean = FALSE]]

\* An except branch that lets the exception pass.
except_reraise(c, outcome, e) ==
    [c EXCEPT !.pc = "return", !.outcome = "raised", !.ret = <<>>, !.attempts = 0]

\* except Exception as e: return f'Error : {str(e)}'
except_return(c, outcome, e) ==
    [c EXCEPT !.pc = "return", !.outcome = outcome, !.ret = ErrorText(e), !.attempts = 0]

\* return text
return_text(c, text) ==
    [c EXCEPT !.pc = "return", !.outcome = "ok", !.ret = text, !.attempts = 0]

\* chats(): a ChatResponse around what chat_with_agent returned, or
\* HTTPException(status_code=500) when it raised.
chats_response(c) == [c EXCEPT !.status = IF c.outcome = "raised" THEN 500 ELSE 200]

\* chat_with_agent leaves through its except branch.
Raised(c, outcome, e) == chats_response(except_return(c, outcome, e))

\* ------------------------------------------------------- chat_with_agent
\* Entry and graph.invoke up to the checkpointer's get_tuple, which loads
\* the newest checkpoint of the thread into the run's channels.
ChatBegin(p, user_id, session_id, message) ==
    /\ ncalls < MaxCalls
    /\ chat[p].pc = "idle"
    /\ ncalls' = ncalls + 1
    /\ \E ok \in BOOLEAN :
         LET c == [IdleChat EXCEPT !.route = "/chats",
                                   !.user_id = user_id, !.session_id = session_id,
                                   !.message = message,
                                   !.before = get_state(unique_id(user_id, session_id))]
         IN  chat' = [chat EXCEPT ![p] =
                        IF ok THEN [c EXCEPT !.pc = "put_input", !.channels = c.before]
                        ELSE Raised(c, "store_error", StorageError)]
    /\ turns' = Logged(chat'[p])
    /\ UNCHANGED <<checkpoints, lister, history>>

\* The input is written to the __start__ channel and the "input" checkpoint
\* is saved: the messages channel is still what was loaded.
PutInput(p) ==
    /\ chat[p].pc = "put_input"
    /\ \E ok \in BOOLEAN :
         IF ok
         THEN /\ checkpoints' = put(ThreadOf(chat[p]), chat[p].channels)
              /\ chat' = [chat EXCEPT ![p].pc = "start"]
         ELSE /\ chat' = [chat EXCEPT ![p] = Raised(chat[p], "store_error", StorageError)]
              /\ UNCHANGED checkpoints
    /\ turns' = Logged(chat'[p])
    /\ UNCHANGED <<lister, history, ncalls>>

\* The __start__ node passes {"messages": [human_msg]} to the reducer and the
\* checkpoint of that step is saved.
StartNode(p) ==
    /\ chat[p].pc = "start"
    /\ LET merged == add_messages(chat[p].channels, <<HumanMessage(chat[p].message)>>)
       IN  \E ok \in BOOLEAN :
             IF ok
             THEN /\ checkpoints' = put(ThreadOf(chat[p]), merged)
                  /\ chat' = [chat EXCEPT ![p].pc = "chat_node", ![p].channels = merged,
                                          ![p].attempts = 1]
             ELSE /\ chat' = [chat EXCEPT ![p] = Raised(chat[p], "store_error", StorageError)]
                  /\ UNCHANGED checkpoints
    /\ turns' = Logged(chat'[p])
    /\ UNCHANGED <<lister, history, ncalls>>

\* messages = [sys_prompt] + state['messages']
chat_node_request(state_messages) == <<sys_prompt>> \o state_messages

\* A node that hands the whole request back to the reducer.
chat_node_update_all(request, response) == Append(request, response)

\* return {'messages': [response]}
chat_node_update(request, response) == <<response>>

\* The text chat_with_agent returns for reply['messages'][-1].
reply_text(messages) == FlattenText(messages[Len(messages)].content)

\* chat_node answers: its update is reduced into the channel, the final
\* checkpoint is saved, and chat_with_agent flattens reply['messages'][-1].
ChatNode(p, reply) ==
    /\ chat[p].pc = "chat_node"
    /\ LET request == chat_node_request(chat[p].channels)
           response == [AIMessage(reply) EXCEPT !.id = uuid4(chat[p].channels)]
           merged == add_messages(chat[p].channels, chat_node_update(request, response))
           c == [chat[p] EXCEPT !.request = request, !.response = response,
                                !.channels = merged]
       IN  \E ok \in BOOLEAN :
             IF ok
             THEN /\ checkpoints' = put(ThreadOf(chat[p]), merged)
                  /\ chat' = [chat EXCEPT ![p] =
                        IF FlattenRaises(merged[Len(merged)].content)
                        THEN Raised(c, "flatten_error", TypeError)
                        ELSE chats_response(return_text(c, reply_text(merged)))]
             ELSE /\ chat' = [chat EXCEPT ![p] = Raised(c, "store_error", StorageError)]
                  /\ UNCHANGED checkpoints
    /\ turns' = Logged(chat'[p])
    /\ UNCHANGED <<lister, history, ncalls>>

\* Whether llm.invoke tries again after its attempt number `attempts` failed.
may_retry_once_more(attempts) == attempts <= max_retries + 1

may_retry(attempts) == attempts <= max_retries

\* An attempt of llm.invoke fails and the client tries again.
ChatNodeRetry(p) ==
    /\ chat[p].pc = "chat_node"
    /\ may_retry(chat[p].attempts)
    /\ chat' = [chat EXCEPT ![p].attempts = @ + 1]
    /\ UNCHANGED <<checkpoints, lister, history, ncalls, turns>>

\* llm.invoke raises (the error is not retried, or the client gives up): the
\* exception leaves graph.invoke and is caught.
ChatNodeFail(p) ==
    /\ chat[p].pc = "chat_node"
    /\ chat' = [chat EXCEPT ![p] =
          Raised([chat[p] EXCEPT !.request = chat_node_request(chat[p].channels)],
                 "backend_error", BackendError)]
    /\ turns' = Logged(chat'[p])
    /\ UNCHANGED <<checkpoints, lister, history, ncalls>>

\* Depends(get_current_user): the user of a verified token; <<>> stands for
\* the HTTPException raised for any other.
get_current_user(credential) == IF credential = "valid" THEN <<"u">> ELSE <<>>

\* POST /chat: the dependency admits or rejects the request (HTTPBearer
\* answers a missing header with 403 or 401, get_current_user a rejected
\* token with 401); the handler has no body, so an admitted request has no
\* ChatResponse to send and ends in a server error. An async route: it runs
\* on the event loop of the main process.
ChatEndpoint(credential) ==
    /\ chat[MainProc].pc = "idle"
    /\ history.pc = "idle"
    /\ LET user == get_current_user(credential)
       IN  \E status \in (IF credential = "none" THEN {401, 403}
                           ELSE IF user = <<>> THEN {401} ELSE {500}) :
             chat' = [chat EXCEPT ![MainProc] =
                        [IdleChat EXCEPT !.pc = "return", !.route = "/chat",
                                         !.user = user,
                                         !.outcome = IF user = <<>> THEN "unauthorized"
                                                     ELSE "no_response",
                                         !.status = status]]
    /\ UNCHANGED <<checkpoints, lister, history, ncalls, turns>>

\* chats() wraps the returned text in a ChatResponse and the request ends.
ChatReturn(p) ==
    /\ chat[p].pc = "return"
    /\ chat' = [chat EXCEPT ![p] = IdleChat]
    /\ UNCHANGED <<checkpoints, lister, history, ncalls, turns>>

\* ---------------------------------------------- get_conversation_history
\* A loop body that passes the content of an AIMessage on as it is stored.
RECURSIVE ConversationUnflattened(_)
ConversationUnflattened(messages) ==
    IF messages = <<>> THEN <<>>
    ELSE LET msg == Head(messages)
         IN  (IF msg.type = "human"
              THEN <<[role |-> "user", content |-> msg.content.text]>>
              ELSE IF msg.type = "ai"
              THEN <<[role |-> "ai", content |-> msg.content.text]>>
              ELSE <<>>) \o ConversationUnflattened(Tail(messages))

\* The loop body: a HumanMessage keeps its content, an AIMessage is
\* flattened, any other message is skipped.
RECURSIVE Conversation(_)
Conversation(messages) ==
    IF messages = <<>> THEN <<>>
    ELSE LET msg == Head(messages)
         IN  (IF msg.type = "human"
              THEN <<[role |-> "user", content |-> msg.content.text]>>
              ELSE IF msg.type = "ai"
              THEN <<[role |-> "ai", content |-> FlattenText(msg.content)]>>
              ELSE <<>>) \o Conversation(Tail(messages))

\* An AIMessage whose flattening raises ends the loop in the except branch.
ConversationRaises(messages) ==
    \E i \in 1 .. Len(messages) :
        messages[i].type = "ai" /\ FlattenRaises(messages[i].content)

\* ok: whether graph.get_state succeeds. Every exception yields [].
get_conversation_history(user_id, session_id, ok) ==
    LET messages == get_state(unique_id(user_id, session_id))
    IN  IF ok /\ ~ConversationRaises(messages) THEN Conversation(messages) ELSE <<>>

HistoryOutcome(user_id, session_id, ok) ==
    IF ~ok THEN "store_error"
    ELSE IF ConversationRaises(get_state(unique_id(user_id, session_id)))
         THEN "flatten_error" ELSE "ok"

\* A history route that saves an empty checkpoint for the thread it reads.
GetHistoryCreatingThread(user_id, session_id) ==
    /\ chat[MainProc].pc = "idle"
    /\ history.pc = "idle"
    /\ \E ok \in BOOLEAN :
         history' = [pc |-> "return", user_id |-> user_id, session_id |-> session_id,
                     conversation |-> <<>>,
                     outcome |-> IF ok THEN "ok" ELSE "store_error"]
    /\ checkpoints' = put(unique_id(user_id, session_id),
                          get_state(unique_id(user_id, session_id)))
    /\ UNCHANGED <<chat, lister, ncalls, turns>>

\* GET /history/{user_id}/{session_id}: an async route, it runs on the event
\* loop of the main process, so not while that loop is inside chats().
GetHistory(user_id, session_id) ==
    /\ chat[MainProc].pc = "idle"
    /\ history.pc = "idle"
    /\ \E ok \in BOOLEAN :
         history' = [pc |-> "return", user_id |-> user_id, session_id |-> session_id,
                     conversation |-> get_conversation_history(user_id, session_id, ok),
                     outcome |-> HistoryOutcome(user_id, session_id, ok)]
    /\ UNCHANGED <<checkpoints, chat, lister, ncalls, turns>>

\* return {"conversation": history}
HistoryReturn ==
    /\ history.pc = "return"
    /\ history' = IdleHistory
    /\ UNCHANGED <<checkpoints, chat, lister, ncalls, turns>>

\* ------------------------------------------------- get_all_user_sessions
NewChat == <<"N", "e", "w", " ", "c", "h", "a", "t">>

\* (f'{user_id}:%',)
like_pattern(user_id) == user_id \o <<":", "%">>

\* SELECT DISTINCT thread_id FROM checkpoints WHERE thread_id LIKE %s
select_thread_ids(user_id) ==
    { t \in DOMAIN checkpoints : Like(t, like_pattern(user_id)) }

\* thread_id.split(': ')[1]; fewer than two pieces is an IndexError.
session_pieces(thread_id) == split(thread_id, <<":", " ">>)
session_of(thread_id) == session_pieces(thread_id)[2]

\* preview = "New chat", replaced by history[0]['content'][:50] when the
\* history is not empty.
preview_of(conversation) ==
    IF conversation # <<>> /\ Len(conversation) > 0
    THEN Take(conversation[1].content, PreviewLen)
    ELSE NewChat

\* cursor.execute and fetchall. The route is a plain def: it runs in the
\* thread pool, concurrently with the event loop.
ListBegin(user_id) ==
    /\ lister.pc = "idle"
    /\ \E ok \in BOOLEAN :
         lister' = IF ok
                   THEN [IdleLister EXCEPT !.pc = "rows", !.user_id = user_id,
                                           !.rows = select_thread_ids(user_id)]
                   ELSE [IdleLister EXCEPT !.pc = "return", !.user_id = user_id,
                                           !.outcome = "store_error"]
    /\ UNCHANGED <<checkpoints, chat, history, ncalls, turns>>

\* One iteration of `for row in results`, in the order the scan gave.
ListRow(thread_id) ==
    /\ lister.pc = "rows"
    /\ thread_id \in lister.rows
    /\ IF Len(session_pieces(thread_id)) < 2
       THEN lister' = [IdleLister EXCEPT !.pc = "return", !.user_id = lister.user_id,
                                         !.outcome = "index_error"]
       ELSE \E ok \in BOOLEAN :
              LET session_id == session_of(thread_id)
                  conversation == get_conversation_history(lister.user_id, session_id, ok)
                  rest == lister.rows \ {thread_id}
              IN  lister' = [lister EXCEPT
                     !.pc = IF rest = {} THEN "return" ELSE "rows",
                     !.outcome = IF rest = {} THEN "ok" ELSE "none",
                     !.rows = rest,
                     !.scanned = Append(lister.scanned, thread_id),
                     !.sessions = Append(lister.sessions,
                                         [session_id |-> session_id,
                                          preview |-> preview_of(conversation)])]
    /\ UNCHANGED <<checkpoints, chat, history, ncalls, turns>>

\* cursor.close(); return sessions (or return [] from the except branch)
ListReturn ==
    /\ \/ lister.pc = "return"
       \/ lister.pc = "rows" /\ lister.rows = {}
    /\ lister' = IdleLister
    /\ UNCHANGED <<checkpoints, chat, history, ncalls, turns>>

\* ------------------------------------------------------------ specification
\* POST /chats is an async route whose body blocks: the process started by
\* main.py serves one chat_with_agent call at a time, and no other async
\* route meanwhile.
Chats(user_id, session_id, message) ==
    /\ history.pc = "idle"
    /\ ChatBegin(MainProc, user_id, session_id, message)

\* A further server process on the same database starts a call.
WorkerChats(p, user_id, session_id, message) ==
    /\ p # MainProc
    /\ ChatBegin(p, user_id, session_id, message)

Next ==
    \/ \E r \in Requests, m \in Messages : Chats(r[1], r[2], m)
    \/ \E p \in Workers : PutInput(p)
    \/ \E p \in Workers : StartNode(p)
    \/ \E p \in Workers, r \in Replies : ChatNode(p, r)
    \/ \E p \in Workers : ChatNodeRetry(p)
    \/ \E p \in Workers : ChatNodeFail(p)
    \/ \E c \in Credentials : ChatEndpoint(c)
    \/ \E p \in Workers : ChatReturn(p)
    \/ \E r \in Requests : GetHistory(r[1], r[2])
    \/ HistoryReturn
    \/ \E u \in UserIds : ListBegin(u)
    \/ \E t \in DOMAIN checkpoints : ListRow(t)
    \/ ListReturn

Spec == Init /\ [][Next]_vars

NextWorkers ==
    \/ Next
    \/ \E p \in Workers, r \in Requests, m \in Messages : WorkerChats(p, r[1], r[2], m)

SpecWorkers == Init /\ [][NextWorkers]_vars

\* ------------------------------------------------------------------ claims
IsPrefix(a, b) == Len(a) <= Len(b) /\ SubSeq(b, 1, Len(a)) = a

Range(seq) == { seq[i] : i \in 1 .. Len(seq) }

Returned(p, outcome) == chat[p].pc = "return" /\ chat[p].outcome = outcome

\* C1: when chat_with_agent has returned the reply of the backend, the stored
\* history of its thread is the history the call found, followed by exactly
\* two messages: the human message with the inbound text, then the reply.
C1_TurnAppended ==
    \A p \in Workers :
        Returned(p, "ok") =>
            LET before == chat[p].before
                after == get_state(ThreadOf(chat[p]))
                n == Len(before)
            IN  /\ Len(after) = n + 2
                /\ SubSeq(after, 1, n) = before
                /\ after[n + 1].type = "human"
                /\ after[n + 1].content = StrContent(chat[p].message)
                /\ after[n + 2] = chat[p].response
                /\ after[n + 2].type = "ai"

\* C1 witness: a second turn with the same text as an earlier message of the
\* thread has been stored.
C1_Witness ==
    \E p \in Workers :
        /\ Returned(p, "ok")
        /\ \E i \in 1 .. Len(chat[p].before) :
              /\ chat[p].before[i].type = "human"
              /\ chat[p].before[i].content = StrContent(chat[p].message)

\* C2: no partial turns: when llm.invoke failed, the stored history of the
\* thread is what it was before the call.
C2_NoPartialTurn ==
    \A p \in Workers :
        Returned(p, "backend_error") => get_state(ThreadOf(chat[p])) = chat[p].before

SameThread(p, q) == ThreadOf(chat[p]) = ThreadOf(chat[q])

\* The human message of the call of p is stored with the reply of that call
\* right after it.
TurnStored(p) ==
    LET stored == get_state(ThreadOf(chat[p]))
        mine == chat[p].channels
    IN  \E i \in 1 .. (Len(stored) - 1) :
           /\ stored[i] = mine[Len(mine) - 1]
           /\ stored[i + 1] = chat[p].response

\* C3: per-thread serialization: when two calls on one thread have both
\* returned their replies, both turns are stored (four new messages, none
\* lost) and each human message is followed by its own reply.
C3_BothTurnsStored ==
    \A p, q \in Workers :
        (p # q /\ Returned(p, "ok") /\ Returned(q, "ok") /\ SameThread(p, q)) =>
            LET base == IF Len(chat[p].before) <= Len(chat[q].before)
                        THEN chat[p].before ELSE chat[q].before
                stored == get_state(ThreadOf(chat[p]))
            IN  /\ IsPrefix(base, stored)
                /\ Len(stored) >= Len(base) + 4
                /\ TurnStored(p)
                /\ TurnStored(q)

\* C4: threads are append-only: every step leaves the stored history of every
\* thread a prefix of the history after the step.
C4_AppendOnly ==
    [][\A t \in DOMAIN checkpoints :
          t \in DOMAIN checkpoints' /\ IsPrefix(checkpoints[t], checkpoints'[t])]_vars

\* C5: thread ids are injective: the thread id of a call is the thread id of
\* no other (user_id, session_id) pair that the service accepts.
C5_ThreadIdInjective ==
    \A p \in Workers :
        chat[p].pc # "idle" =>
            \A r \in Requests :
                r # <<chat[p].user_id, chat[p].session_id>> =>
                    unique_id(r[1], r[2]) # ThreadOf(chat[p])

\* The value get_all_user_sessions is about to return.
ListerReturns == lister.pc = "return" /\ lister.outcome = "ok"

BelongsTo(thread_id, user_id) ==
    \E s \in SessionIds : unique_id(user_id, s) = thread_id

\* C6: get_all_user_sessions(u) lists the threads of u and no others: every
\* entry comes from a thread made for u, and no thread gives two entries.
C6_ListsOwnThreads ==
    ListerReturns =>
        /\ \A i \in 1 .. Len(lister.scanned) : BelongsTo(lister.scanned[i], lister.user_id)
        /\ \A i, j \in 1 .. Len(lister.scanned) :
              lister.scanned[i] = lister.scanned[j] => i = j
        /\ Len(lister.sessions) = Len(lister.scanned)

\* C7: the session_id of every entry is the one its thread id was composed
\* from: composing it with the user id gives back the scanned thread id.
C7_SessionIdInverse ==
    ListerReturns =>
        \A i \in 1 .. Len(lister.scanned) :
            unique_id(lister.user_id, lister.sessions[i].session_id) = lister.scanned[i]

HistoryThread == unique_id(history.user_id, history.session_id)

\* The transcript of a log of turns: the message, then the returned text.
RECURSIVE Transcript(_)
Transcript(log) ==
    IF log = <<>> THEN <<>>
    ELSE <<[role |-> "user", content |-> Head(log).message],
           [role |-> "ai", content |-> Head(log).text]>> \o Transcript(Tail(log))

\* C8: projection round trip: for a thread built by N calls that all returned
\* their reply, get_conversation_history returns the 2N entries user m1,
\* ai r1, ..., user mN, ai rN, each ri the text chat_with_agent returned.
C8_ProjectionRoundTrip ==
    (history.pc = "return" /\ history.outcome = "ok" /\ TurnsOf(HistoryThread).clean) =>
        history.conversation = Transcript(TurnsOf(HistoryThread).log)

\* C8 witness: the transcript of two turns, one of them a multi-part reply,
\* has been returned.
C8_Witness ==
    /\ history.pc = "return"
    /\ history.outcome = "ok"
    /\ TurnsOf(HistoryThread).clean
    /\ Len(TurnsOf(HistoryThread).log) = 2
    /\ \E i \in 1 .. 2 : TurnsOf(HistoryThread).log[i].text = <<"a", "b">>
    /\ Len(history.conversation) = 4

\* C9: cross-thread isolation: a step of a chat_with_agent call for (u, s)
\* leaves the history of every other pair (u', s') as it was.
C9_OtherPairsUnchanged ==
    [][\A p \in Workers :
          (chat[p].pc # "idle" /\ chat'[p] # chat[p]) =>
              \A r \in Requests :
                  r # <<chat[p].user_id, chat[p].session_id>> =>
                      LET t == unique_id(r[1], r[2])
                      IN  (IF t \in DOMAIN checkpoints' THEN checkpoints'[t] ELSE <<>>)
                            = get_state(t)]_vars

\* C10: every request of chat_node is the directive, then the history the
\* call found, then the inbound message, with no other system message; and
\* no stored thread holds a system message.
C10_DirectiveFirstNeverStored ==
    /\ \A p \in Workers :
          chat[p].request # <<>> =>
              LET request == chat[p].request
                  n == Len(chat[p].before)
              IN  /\ request[1] = sys_prompt
                  /\ Len(request) = n + 2
                  /\ SubSeq(request, 2, n + 1) = chat[p].before
                  /\ request[n + 2].type = "human"
                  /\ request[n + 2].content = StrContent(chat[p].message)
                  /\ \A i \in 2 .. Len(request) : request[i].type # "system"
    /\ \A t \in DOMAIN checkpoints :
          \A i \in 1 .. Len(checkpoints[t]) : checkpoints[t][i].type # "system"

\* C10 witness: a request over a thread that already holds a turn was made
\* and its reply stored.
C10_Witness ==
    \E p \in Workers :
        /\ Returned(p, "ok")
        /\ Len(chat[p].request) >= 4
        /\ Len(get_state(ThreadOf(chat[p]))) >= 4

\* The first stored user message of a thread, as a one-element sequence, or
\* the empty sequence when it has none.
RECURSIVE FirstUserText(_)
FirstUserText(messages) ==
    IF messages = <<>> THEN <<>>
    ELSE IF Head(messages).type = "human" THEN <<Head(messages).content.text>>
    ELSE FirstUserText(Tail(messages))

\* The entry that this step of get_all_user_sessions adds, and its thread.
RowAdded == Len(lister'.scanned) = Len(lister.scanned) + 1
AddedThread == lister'.scanned[Len(lister'.scanned)]
AddedEntry == lister'.sessions[Len(lister'.sessions)]

\* C11: the preview of every entry has at most 50 characters, is the first 50
\* characters of the first stored user message of its thread, and is the
\* literal "New chat" exactly when that thread has no messages.
C11_Preview ==
    [][RowAdded =>
          LET stored == get_state(AddedThread)
              preview == AddedEntry.preview
          IN  /\ Len(preview) <= PreviewLen
              /\ (preview = NewChat) <=> (stored = <<>>)
              /\ stored # <<>> =>
                    /\ FirstUserText(stored) # <<>>
                    /\ preview = Take(FirstUserText(stored)[1], PreviewLen)]_vars

\* No chat_with_agent call was ever made on the thread.
NeverCalled(thread_id) ==
    /\ thread_id \notin DOMAIN turns
    /\ \A p \in Workers : chat[p].pc # "idle" => ThreadOf(chat[p]) # thread_id

\* No thread in the store was made for the user.
NoThreadOf(user_id) == \A t \in DOMAIN checkpoints : ~BelongsTo(t, user_id)

\* C12: get_conversation_history for a pair that never received a message
\* returns an empty sequence, and get_all_user_sessions for a user with no
\* threads returns an empty sequence.
C12_EmptyThread ==
    /\ (history.pc = "return" /\ NeverCalled(HistoryThread)) => history.conversation = <<>>
    /\ (lister.pc \in {"rows", "return"} /\ NoThreadOf(lister.user_id)) =>
          (lister.rows = {} /\ lister.sessions = <<>>)

\* The call of p is one that POST /chats started, and it has begun.
ChatsCall(p) == chat[p].pc # "idle" /\ chat[p].route = "/chats"

InProgress(p) == chat[p].pc \in {"put_input", "start", "chat_node"}

\* C13: a chat request with an empty user_id or an empty session_id is
\* rejected before any backend call and before any store write: its call has
\* ended without a reply, without a backend request, and its thread is not in
\* the store.
C13_EmptyIdRejected ==
    \A p \in Workers :
        (ChatsCall(p) /\ (chat[p].user_id = <<>> \/ chat[p].session_id = <<>>)) =>
            /\ chat[p].pc = "return"
            /\ chat[p].outcome # "ok"
            /\ chat[p].request = <<>>
            /\ ThreadOf(chat[p]) \notin DOMAIN checkpoints

\* C14: every chat request that is being served was admitted with a verified
\* credential and is keyed by the user_id of that credential; a request
\* without one has been aborted as unauthorized.
C14_VerifiedOwner ==
    \A p \in Workers :
        chat[p].pc # "idle" =>
            IF chat[p].user = <<>>
            THEN /\ chat[p].pc = "return"
                 /\ chat[p].outcome = "unauthorized"
                 /\ chat[p].request = <<>>
            ELSE chat[p].route = "/chats" => chat[p].user_id = chat[p].user

\* C15: when the backend call or a store write failed during a chat request,
\* the response has status 500, and a response with status 200 carries the
\* reply of a turn that is stored.
C15_FailureStatus ==
    \A p \in Workers :
        (ChatsCall(p) /\ chat[p].pc = "return") =>
            /\ chat[p].outcome \in {"backend_error", "store_error"} => chat[p].status = 500
            /\ chat[p].status = 200 =>
                  /\ chat[p].outcome = "ok"
                  /\ chat[p].response \in Range(get_state(ThreadOf(chat[p])))

\* str(e) of the exception behind each failure outcome.
Description(outcome) ==
    CASE outcome = "backend_error" -> BackendError
      [] outcome = "store_error" -> StorageError
      [] outcome = "flatten_error" -> TypeError
      [] OTHER -> <<>>

\* C16: chat_with_agent never raises: every call ends by returning a string,
\* the flattened reply on success and 'Error : ' followed by the failure
\* description when the backend, the store or the flattening failed.
C16_NeverRaises ==
    \A p \in Workers :
        (ChatsCall(p) /\ chat[p].pc = "return") =>
            /\ chat[p].outcome \in {"ok", "backend_error", "store_error", "flatten_error"}
            /\ chat[p].outcome = "ok" => chat[p].ret = FlattenText(chat[p].response.content)
            /\ chat[p].outcome # "ok" =>
                  /\ StartsWith(chat[p].ret, <<"E", "r", "r", "o", "r", " ", ":", " ">>)
                  /\ chat[p].ret = ErrorText(Description(chat[p].outcome))

\* C16 witness: a call whose reply could not be flattened has returned.
C16_Witness ==
    \E p \in Workers : Returned(p, "flatten_error") /\ chat[p].response # <<>>

\* This step of get_all_user_sessions read a thread that has a transcript and
\* got nothing: graph.get_state failed inside get_conversation_history.
InnerReadFailed ==
    /\ RowAdded
    /\ LET stored == get_state(unique_id(lister.user_id, AddedEntry.session_id))
       IN  /\ ~ConversationRaises(stored)
           /\ Conversation(stored) # <<>>
           /\ AddedEntry.preview = NewChat

\* C17: when a storage operation fails, get_conversation_history and
\* get_all_user_sessions each return an empty sequence, and the store is
\* unchanged.
C17_ReadsDegradeToEmpty ==
    [][/\ history'.outcome = "store_error" => history'.conversation = <<>>
       /\ lister'.outcome = "store_error" => lister'.sessions = <<>>
       /\ InnerReadFailed => (lister'.sessions = <<>> /\ lister'.pc = "return")
       /\ (\/ history' # history /\ history'.outcome = "store_error"
           \/ lister' # lister /\ lister'.outcome = "store_error"
           \/ InnerReadFailed) => checkpoints' = checkpoints]_vars

\* C18: a step of get_conversation_history or get_all_user_sessions leaves
\* every thread and the set of thread ids as they were, and every step that
\* changes the store is a step of a chat_with_agent call.
C18_ReadsSideEffectFree ==
    [][/\ (history' # history \/ lister' # lister) => checkpoints' = checkpoints
       /\ checkpoints' # checkpoints =>
             \E p \in Workers : ChatsCall(p) /\ chat'[p] # chat[p]]_vars

\* C18 witness: the history of a thread that does not exist has been read
\* while a listing that scanned a thread is returning.
C18_Witness ==
    /\ history.pc = "return"
    /\ HistoryThread \notin DOMAIN checkpoints
    /\ lister.pc = "return"
    /\ lister.scanned # <<>>

\* Complete turns: even length, a user message at every odd position and an
\* assistant message at every even one.
WellFormed(messages) ==
    /\ Len(messages) % 2 = 0
    /\ \A i \in 1 .. Len(messages) :
          messages[i].type = (IF i % 2 = 1 THEN "human" ELSE "ai")

\* C19: the stored history of every thread on which no chat_with_agent call
\* is in progress is a sequence of complete turns.
C19_WellFormedTurns ==
    \A t \in DOMAIN checkpoints :
        (\A p \in Workers : InProgress(p) => ThreadOf(chat[p]) # t) =>
            WellFormed(checkpoints[t])

\* The steps a call can still take at most.
Rank(c) ==
    CASE c.pc = "put_input" -> max_retries + 4
      [] c.pc = "start" -> max_retries + 3
      [] c.pc = "chat_node" -> max_retries + 2 - c.attempts
      [] OTHER -> 0

\* C20: a call makes at most 1 + max_retries attempts of the backend call;
\* every step of a call brings its return closer, so it ends after a bounded
\* number of steps, by returning a string; and the only step that is repeated
\* is the backend attempt, which writes nothing: no save is tried twice.
C20_BoundedRetry ==
    [][\A p \in Workers :
          /\ chat'[p].attempts <= 1 + max_retries
          /\ (InProgress(p) /\ chat'[p] # chat[p]) =>
                /\ Rank(chat'[p]) < Rank(chat[p])
                /\ chat'[p].pc = chat[p].pc =>
                      /\ chat[p].pc = "chat_node"
                      /\ chat'[p].attempts = chat[p].attempts + 1
                      /\ checkpoints' = checkpoints
                /\ chat'[p].pc = "return" =>
                      chat'[p].outcome \in {"ok", "backend_error", "store_error",
                                            "flatten_error"}]_vars

\* C20 witness: the last attempt that max_retries allows is under way.
C20_Witness ==
    \E p \in Workers : chat[p].pc = "chat_node" /\ chat[p].attempts = 1 + max_retries

====
